---- MODULE Spec2Model ----
(***************************************************************************)
(* Authentication token lifecycle and brute-force defence of the           *)
(* Home-Organization backend (backend/app/api/auth.py, api/deps.py,        *)
(* services/rate_limiter.py, celery_tasks/maintenance.py).                 *)
(*                                                                         *)
(* Time is a clock `now` of ticks; one tick is 15 minutes, the value of    *)
(* ACCESS_TOKEN_EXPIRE_MINUTES and of BRUTE_FORCE_LOCKOUT_MINUTES.  Every  *)
(* handler reads datetime.utcnow() once per tick value, so a JWT "exp"     *)
(* claim (whole seconds) and the datetime it was taken from coincide.      *)
(* A signed token is the pair <<type, p>> of its "type" claim and the      *)
(* index p of the issue that minted it; its "jti" is that same pair (uuid4 *)
(* values are taken to be pairwise distinct).                              *)
(***************************************************************************)
EXTENDS Integers, Sequences, FiniteSets, TLC

\* ---------------------------------------------------------------- bounds
MaxPairs   == 2      \* access+refresh pairs ever issued
MaxTime    == 2      \* last tick of the clock
MaxUsers   == 2      \* rows ever inserted into users
RefreshTTL == 1      \* REFRESH_TOKEN_EXPIRE_DAYS, scaled down to ticks
AuditGrace == 0      \* the 7 days revoked rows are kept, scaled down to ticks
MaxCount   == 6      \* attempts counted for one identifier
LimitPerMinute == 3  \* limit_per_minute of check_rate_limit_strict (10), scaled down
LimitPerHour   == 5  \* its limit_per_hour (600), scaled down
MaxWindow  == 2      \* longest lockout window configured, in ticks

\* ------------------------------------------------------ program constants
AccessTTL     == 1   \* ACCESS_TOKEN_EXPIRE_MINUTES = 15  (one tick)
LockoutWindow == 1   \* BRUTE_FORCE_LOCKOUT_MINUTES = 15  (one tick)
MaxAttempts   == 5   \* BRUTE_FORCE_MAX_ATTEMPTS
HourWindow    == 4   \* pipe.expire(hour_key, 3600): four ticks
Sep           == 0   \* the ":" of f"{client_ip}:{form_data.username}"
MinuteQuanta  == 3   \* pipe.expire(minute_key, 60): three spans of 20 seconds

Emails == {1}        \* addresses a client may submit
IPs    == {1}        \* client addresses resolved by _get_client_ip
NoUser == 0          \* None for a user / user_id
NoTime == -1         \* None for a datetime
Passwords  == {1, 2} \* passwords a client may choose or type
NoPassword == 0      \* secrets.token_urlsafe(32): a password nobody can type

VARIABLES
  now,              \* datetime.utcnow(), in ticks
  users,            \* table users: sequence of rows, id = index
  refresh_tokens,   \* table refresh_tokens: set of rows
  token_blocklist,  \* table token_blocklist: set of rows
  pairs,            \* payloads of the tokens minted so far (what clients hold)
  redis_client,     \* rate_limiter.redis_client is not None
  redis_up,         \* the Redis server answers (its calls do not raise)
  lockout_window,   \* settings.BRUTE_FORCE_LOCKOUT_MINUTES, in ticks
  attempts,         \* Redis keys rate_limit:brute_force:<identifier>
  rate_limit,       \* Redis keys rate_limit:minute:<ip> and rate_limit:hour:<ip>
  hist,             \* history of the requests handled (read by the properties only)
  inflight          \* the requests being handled step by step: their db sessions

vars == <<now, users, refresh_tokens, token_blocklist, pairs, redis_client,
          redis_up, lockout_window, attempts, rate_limit, hist, inflight>>

\* ---------------------------------------------------------------- tokens
NoTok     == <<"none", 0>>
Garbage   == {<<"malformed", 0>>, <<"wrongsig", 0>>}
AccessOf(p)  == <<"access", p>>
RefreshOf(p) == <<"refresh", p>>
AccessTokens  == {AccessOf(p) : p \in 1..Len(pairs)}
RefreshTokens == {RefreshOf(p) : p \in 1..Len(pairs)}
Issued    == AccessTokens \cup RefreshTokens
\* everything a client can put into a header or a body
Presentable == Issued \cup Garbage \cup {NoTok}

\* jwt.encode in create_access_token / create_refresh_token: the claims of a token
ExpOf(tok) == pairs[tok[2]].iat + (IF tok[1] = "access" THEN AccessTTL ELSE RefreshTTL)
SubOf(tok) == pairs[tok[2]].sub

\* jose.jwt.decode: the signature verifies only for tokens minted with SECRET_KEY
SignatureOk(tok) == tok \in Issued

\* jose.jwt.decode, exp validation: python-jose raises ExpiredSignatureError
\* when exp < now (whole seconds), so the token still decodes AT its exp.
JwtExpired(tok, t) == ExpOf(tok) < t

\* jwt.decode(token, SECRET_KEY, algorithms=[...]) raises JWTError
JwtError(tok, t) == ~SignatureOk(tok) \/ JwtExpired(tok, t)

\* jwt.decode(..., options={"verify_exp": False}) raises JWTError
JwtErrorNoExp(tok) == ~SignatureOk(tok)

\* ----------------------------------------------------------------- users
UserIds == 1..Len(users)
\* db.query(User).filter(User.email == email).first()
get_user_by_email(us, email) ==
  IF \E i \in 1..Len(us) : us[i].email = email
  THEN CHOOSE i \in 1..Len(us) : us[i].email = email
  ELSE NoUser

\* verify_password(plain, hashed): `hashed` stands for the password hashed
verify_password(plain, hashed) == plain = hashed

\* f"deleted_{user.id}_{ts}@deleted.local": an address outside Emails, one per id
DeletedEmail(id) == 100 + id

\* ------------------------------------------------------------- blocklist
\* a lookup by unique-id alone, the expiry of the entry ignored
check_token_blocklist_any(bl, jti, t) ==
  \E b \in bl : b.jti = jti

\* deps.check_token_blocklist
check_token_blocklist(bl, jti, t) ==
  \E b \in bl : b.jti = jti /\ b.expires_at > t

\* ----------------------------------------------- access-token validation
\* deps.get_current_user: the response of an endpoint that depends on it
\* (status 200 stands for "the dependency yields `user`")
Reject(status, detail) == [status |-> status, detail |-> detail, user |-> NoUser]

\* the query of get_current_user that raises (the database cannot be reached)
DbFaults == {"none", "blocklist", "users"}

\* get_current_user that takes a blocklist it cannot read for an empty one
get_current_user_fail_open(tok, us, bl, t, fault) ==
  IF JwtError(tok, t) THEN Reject(401, "credentials")
  ELSE IF tok[1] # "access" THEN Reject(401, "credentials")
  ELSE IF fault # "blocklist" /\ check_token_blocklist(bl, tok, t) THEN Reject(401, "revoked")
  ELSE IF fault = "users" THEN Reject(401, "credentials")
  ELSE LET u == get_user_by_email(us, SubOf(tok)) IN
       IF u = NoUser THEN Reject(401, "credentials")
       ELSE IF ~us[u].is_active THEN Reject(403, "inactive")
       ELSE [status |-> 200, detail |-> "ok", user |-> u]

\* get_current_user that does not look at the type claim
get_current_user_any_type(tok, us, bl, t, fault) ==
  IF JwtError(tok, t) THEN Reject(401, "credentials")
  ELSE IF fault = "blocklist" THEN Reject(401, "credentials")
  ELSE IF check_token_blocklist(bl, tok, t) THEN Reject(401, "revoked")
  ELSE IF fault = "users" THEN Reject(401, "credentials")
  ELSE LET u == get_user_by_email(us, SubOf(tok)) IN
       IF u = NoUser THEN Reject(401, "credentials")
       ELSE IF ~us[u].is_active THEN Reject(403, "inactive")
       ELSE [status |-> 200, detail |-> "ok", user |-> u]

\* deps.get_current_user while the query named by `fault` raises: the
\* exception is caught by `except Exception` and answered as a credentials error
get_current_user_with(tok, us, bl, t, fault) ==
  IF JwtError(tok, t) THEN Reject(401, "credentials")
  ELSE IF tok[1] # "access" THEN Reject(401, "credentials")
  ELSE IF fault = "blocklist" THEN Reject(401, "credentials")
  ELSE IF check_token_blocklist(bl, tok, t) THEN Reject(401, "revoked")
  ELSE IF fault = "users" THEN Reject(401, "credentials")
  ELSE LET u == get_user_by_email(us, SubOf(tok)) IN
       IF u = NoUser THEN Reject(401, "credentials")
       ELSE IF ~us[u].is_active THEN Reject(403, "inactive")
       ELSE [status |-> 200, detail |-> "ok", user |-> u]

\* deps.get_current_user with the database answering
get_current_user(tok, us, bl, t) == get_current_user_with(tok, us, bl, t, "none")

\* deps.get_current_user: the check that refuses the token ("none": accepted),
\* as its log line and the exception it raises tell.  jwt.decode verifies the
\* signature and then the exp claim; the type is looked at after it returns.
rejection_reason(tok, us, bl, t) ==
  IF ~SignatureOk(tok) THEN "malformed"
  ELSE IF JwtExpired(tok, t) THEN "expired"
  ELSE IF tok[1] # "access" THEN "wrong-type"
  ELSE IF check_token_blocklist(bl, tok, t) THEN "revoked"
  ELSE LET u == get_user_by_email(us, SubOf(tok)) IN
       IF u = NoUser THEN "unknown"
       ELSE IF ~us[u].is_active THEN "inactive"
       ELSE "none"

\* deps.get_current_user: the tables it queries on the way
queries_made(tok, us, bl, t) ==
  IF JwtError(tok, t) \/ tok[1] # "access" THEN {}
  ELSE IF check_token_blocklist(bl, tok, t) THEN {"token_blocklist"}
  ELSE {"token_blocklist", "users"}

\* ws.get_current_user_from_token: the user, or None (NoUser)
get_current_user_from_token(tok, us, t) ==
  IF JwtError(tok, t) THEN NoUser
  ELSE get_user_by_email(us, SubOf(tok))

\* ws.websocket_endpoint: the user whose connection is accepted, or NoUser
\* when the socket is closed with code 1008
websocket_endpoint(tok, us, t) ==
  LET user == get_current_user_from_token(tok, us, t) IN
  IF tok = NoTok \/ user = NoUser THEN NoUser
  ELSE IF ~us[user].is_active THEN NoUser
  ELSE user

\* ------------------------------------------------------ refresh-token rows
\* RefreshToken.is_valid
is_valid(row, t) == ~row.revoked /\ row.expires_at > t

\* a revoke that sets the flag and leaves revoked_at as it is
revoke_flag_only(row, t) == [row EXCEPT !.revoked = TRUE]

\* RefreshToken.revoke
revoke(row, t) == [row EXCEPT !.revoked = TRUE, !.revoked_at = t]

\* db.query(RefreshToken).filter(jti == jti, revoked == False)
ActiveRows(rt, jti) == {r \in rt : r.jti = jti /\ ~r.revoked}

\* auth.verify_refresh_token: 401 with a detail, or (user, db_token)
Refuse(detail) == [ok |-> FALSE, detail |-> detail, user |-> NoUser, jti |-> NoTok]
verify_refresh_token(tok, us, rt, t) ==
  IF JwtError(tok, t) THEN Refuse("Could not validate token")
  ELSE IF tok[1] # "refresh" THEN Refuse("Invalid token type")
  ELSE IF ActiveRows(rt, tok) = {} THEN Refuse("Token has been revoked or does not exist")
  ELSE LET row == CHOOSE r \in ActiveRows(rt, tok) : TRUE
           u   == get_user_by_email(us, SubOf(tok)) IN
       IF ~is_valid(row, t) THEN Refuse("Token has expired")
       ELSE IF u = NoUser \/ ~us[u].is_active THEN Refuse("User not found or inactive")
       ELSE [ok |-> TRUE, detail |-> "ok", user |-> u, jti |-> tok]

\* auth.create_refresh_token: the row it commits (the JWT is RefreshOf(p))
NewRefreshRow(p, uid, t) ==
  [jti |-> RefreshOf(p), user_id |-> uid, expires_at |-> t + RefreshTTL,
   created_at |-> t, revoked |-> FALSE, revoked_at |-> NoTime]

\* a row of token_blocklist (user_id, revoked_at and reason, which nothing
\* reads, are left out)
BlockEntry(jti, type, expires_at) ==
  [jti |-> jti, token_type |-> type, expires_at |-> expires_at]

\* auth.block_access_token: the table after the call (existing entry: unchanged)
block_access_token(bl, jti, expires_at) ==
  IF \E b \in bl : b.jti = jti THEN bl
  ELSE bl \cup {BlockEntry(jti, "access", expires_at)}

\* auth.block_refresh_token
block_refresh_token(bl, jti, expires_at) ==
  IF \E b \in bl : b.jti = jti THEN bl
  ELSE bl \cup {BlockEntry(jti, "refresh", expires_at)}

\* revoke-all that revokes the newest session of the user only
revoke_newest_only(rt, bl, uid, t) ==
  LET mine == {r \in rt : r.user_id = uid /\ ~r.revoked}
      hit  == {r \in mine : \A q \in mine : q.created_at <= r.created_at /\ q.jti[2] <= r.jti[2]}
  IN [rt |-> (rt \ hit) \cup {[r EXCEPT !.revoked = TRUE, !.revoked_at = t] : r \in hit},
      bl |-> bl, count |-> Cardinality(hit)]

\* revoke-all whose UPDATE has no filter on revoked and inverts the flag
revoke_all_user_tokens_flip(rt, bl, uid, t) ==
  LET hit     == {r \in rt : r.user_id = uid}
      updated == (rt \ hit) \cup {[r EXCEPT !.revoked = ~@, !.revoked_at = t] : r \in hit}
  IN [rt |-> updated, bl |-> bl, count |-> Cardinality(hit)]

\* revoke-all whose UPDATE has no filter on user_id
revoke_all_user_tokens_everyone(rt, bl, uid, t) ==
  LET hit     == {r \in rt : ~r.revoked}
      updated == (rt \ hit) \cup {revoke(r, t) : r \in hit}
  IN [rt |-> updated, bl |-> bl, count |-> Cardinality(hit)]

\* auth.revoke_all_user_tokens: the bulk UPDATE, then the SELECT of the rows
\* that are still not revoked, each of which is mirrored into the blocklist
RECURSIVE BlockAll(_, _)
BlockAll(bl, rows) ==
  IF rows = {} THEN bl
  ELSE LET r == CHOOSE x \in rows : TRUE IN
       BlockAll(block_refresh_token(bl, r.jti, r.expires_at), rows \ {r})
revoke_all_user_tokens(rt, bl, uid, t) ==
  LET hit     == {r \in rt : r.user_id = uid /\ ~r.revoked}
      updated == (rt \ hit) \cup {revoke(r, t) : r \in hit}
      still   == {r \in updated : r.user_id = uid /\ ~r.revoked}
  IN [rt |-> updated, bl |-> BlockAll(bl, still), count |-> Cardinality(hit)]

\* ------------------------------------------------------ brute-force guard
\* the addresses accounts are registered with where two accounts are needed
Addresses == {1, 2}

\* what _get_client_ip can resolve to and what a login form can carry as its
\* username: 1 and 2 are texts without a colon, 3 is a text with one (an IPv6
\* address, the first element of an X-Forwarded-For header, any string in the
\* form)
Clients   == {1, 3}
Usernames == {1, 2, 3}
Text(x) == IF x = 3 THEN <<1, Sep, 1>> ELSE <<x>>

\* identifier = f"{client_ip}:{form_data.username}", as a sequence of characters
IdentifierOf(ip, e) == Text(ip) \o <<Sep>> \o Text(e)

\* the brute-force keys there can be
Idents == {IdentifierOf(ip, e) : ip \in Clients, e \in Usernames}
Absent == [n |-> 0, exp |-> 0]   \* no key

\* redis_client.get(key): None (0) once the key's TTL has run out
RedisGet(att, id, t) == IF att[id].n > 0 /\ att[id].exp > t THEN att[id].n ELSE 0

\* record_failed_login that reports a lockout when Redis cannot be asked
record_failed_login_fail_closed(att, id, t, up) ==
  IF ~up THEN [att |-> att, count |-> MaxAttempts, locked |-> TRUE]
  ELSE LET attempt_count == RedisGet(att, id, t) + 1 IN
       [att    |-> [att EXCEPT ![id] = [n |-> attempt_count, exp |-> t + lockout_window]],
        count  |-> attempt_count,
        locked |-> attempt_count >= MaxAttempts]

\* record_failed_login whose key outlives the lockout window (a TTL taken in
\* the wrong unit)
record_failed_login_long_ttl(att, id, t, up) ==
  IF ~up THEN [att |-> att, count |-> 0, locked |-> FALSE]
  ELSE LET attempt_count == RedisGet(att, id, t) + 1 IN
       [att    |-> [att EXCEPT ![id] = [n |-> attempt_count, exp |-> t + lockout_window + MaxTime]],
        count  |-> attempt_count,
        locked |-> attempt_count >= MaxAttempts]

\* RateLimiter.record_failed_login: (attempt_count, is_locked_out) and the keys
record_failed_login(att, id, t, up) ==
  IF ~up THEN [att |-> att, count |-> 0, locked |-> FALSE]
  ELSE LET attempt_count == RedisGet(att, id, t) + 1 IN
       [att    |-> [att EXCEPT ![id] = [n |-> attempt_count, exp |-> t + lockout_window]],
        count  |-> attempt_count,
        locked |-> attempt_count >= MaxAttempts]

\* RateLimiter.reset_failed_logins
reset_failed_logins(att, id, up) ==
  IF ~up THEN att ELSE [att EXCEPT ![id] = Absent]

\* RateLimiter.get_remaining_attempts
get_remaining_attempts(att, id, t, up) ==
  IF ~up THEN MaxAttempts
  ELSE LET d == MaxAttempts - RedisGet(att, id, t) IN IF d > 0 THEN d ELSE 0

\* the request counters of one client: the value of its minute key and of its
\* hour key (0: no key), the spans of 20 seconds the minute key has left, and
\* the tick in which the hour key runs out; the minute key, set to expire after
\* 60 seconds, never outlives a tick
NoRequests == [minute |-> 0, minute_ttl |-> 0, hour |-> 0, hour_exp |-> 0]

\* check_rate_limit that refuses only when both windows are full
check_rate_limit_both(rl, ip, limit_per_minute, limit_per_hour, t, up) ==
  IF ~up THEN [allowed |-> TRUE, rl |-> rl]
  ELSE IF rl[ip].minute >= limit_per_minute /\ rl[ip].hour >= limit_per_hour
  THEN [allowed |-> FALSE, rl |-> rl]
  ELSE [allowed |-> TRUE,
        rl |-> [rl EXCEPT ![ip] = [minute |-> @.minute + 1, minute_ttl |-> MinuteQuanta,
                                   hour |-> @.hour + 1,
                                   hour_exp |-> t + HourWindow]]]

\* RateLimiter.check_rate_limit: (is_allowed, _) and the keys
check_rate_limit(rl, ip, limit_per_minute, limit_per_hour, t, up) ==
  IF ~up THEN [allowed |-> TRUE, rl |-> rl]
  ELSE IF rl[ip].minute >= limit_per_minute THEN [allowed |-> FALSE, rl |-> rl]
  ELSE IF rl[ip].hour >= limit_per_hour THEN [allowed |-> FALSE, rl |-> rl]
  ELSE [allowed |-> TRUE,
        rl |-> [rl EXCEPT ![ip] = [minute |-> @.minute + 1, minute_ttl |-> MinuteQuanta,
                                   hour |-> @.hour + 1,
                                   hour_exp |-> t + HourWindow]]]

\* deps_rate_limit.check_rate_limit_strict: 429, or the endpoint that depends
\* on it runs (`downstream`)
check_rate_limit_strict(rl, ip, t, up) ==
  LET c == check_rate_limit(rl, ip, LimitPerMinute, LimitPerHour, t, up) IN
  [status |-> IF c.allowed THEN 200 ELSE 429, downstream |-> c.allowed, rl |-> c.rl]

\* history of one client: the requests the limiter counted and let through,
\* by the spans of 20 seconds that have passed since (0: in the current span,
\* MinuteQuanta: sixty seconds ago)
NoneRecent == [age \in 0..MinuteQuanta |-> 0]

\* history of one identifier: consecutive wrong-credential attempts, the time
\* of the last attempt, and whether an attempt has been refused as locked out
\* since the last success
NoStreak == [fails |-> 0, at |-> NoTime, locked |-> FALSE]
WindowOver(h, t) == h.at = NoTime \/ t >= h.at + lockout_window
StreakAfter(h, t, correct, status) ==
  LET base == IF WindowOver(h, t) THEN 0 ELSE h.fails IN
  IF status = 200 THEN NoStreak
  ELSE [fails  |-> IF correct THEN base ELSE base + 1,
        at     |-> t,
        locked |-> status = 429]

\* the requests handled concurrently, each with its own db session (get_db);
\* a session at rest holds nothing
Reqs == {1, 2}
Idle == [op |-> "idle", pc |-> "idle", tok |-> NoTok, user |-> NoUser,
         dirty |-> FALSE, seen |-> {}, key |-> <<0, 0>>, count |-> 0,
         body |-> NoTok]

\* the state after start-up with a lockout window of w ticks configured
InitWith(w) ==
  /\ lockout_window = w
  /\ now = 0
  /\ users = << >>
  /\ refresh_tokens = {}
  /\ token_blocklist = {}
  /\ pairs = << >>
  /\ redis_client \in BOOLEAN
  /\ redis_up = TRUE
  /\ attempts = [id \in Idents |-> Absent]
  /\ rate_limit = [ip \in IPs |-> NoRequests]
  /\ hist = [rotated |-> {}, outAcc |-> {}, outRef |-> {}, allRef |-> {},
             allAcc |-> {}, succ |-> {}, died |-> {}, deleted |-> {}, answered |-> {},
             trigger |-> [id \in Idents |-> NoTime],
             recent |-> [ip \in IPs |-> NoneRecent],
             recorded |-> [id \in Idents |-> 0], allowed |-> [ip \in IPs |-> 0],
             streak |-> [id \in Idents |-> NoStreak]]
  /\ inflight = [r \in Reqs |-> Idle]

\* the state after start-up with the settings of config.py
Init == InitWith(LockoutWindow)

\* the clock advances; Redis drops the keys whose TTL has run out
Tick ==
  /\ now < MaxTime
  /\ now' = now + 1
  /\ attempts' = [id \in Idents |->
                    IF attempts[id].exp <= now + 1 THEN Absent ELSE attempts[id]]
  /\ hist' = [hist EXCEPT !.streak = [id \in Idents |->
                 IF WindowOver(@[id], now + 1)
                 THEN [fails |-> 0, at |-> NoTime, locked |-> @[id].locked]
                 ELSE @[id]],
                          !.trigger = [id \in Idents |->
                 IF attempts[id].exp <= now + 1 THEN NoTime ELSE @[id]],
                          !.recent = [ip \in IPs |-> NoneRecent]]
  /\ rate_limit' = [ip \in IPs |->
                      IF rate_limit[ip].hour_exp <= now + 1 THEN NoRequests
                      ELSE [rate_limit[ip] EXCEPT !.minute = 0, !.minute_ttl = 0]]
  /\ UNCHANGED <<users, refresh_tokens, token_blocklist, pairs, redis_client, lockout_window, redis_up, inflight>>

\* POST /auth/register with the address e and the password pw
Register(e, pw, maxp) ==
  /\ Len(pairs) < maxp
  /\ Len(users) < MaxUsers
  /\ IF get_user_by_email(users, e) # NoUser
     THEN UNCHANGED <<users, refresh_tokens, pairs>>
     ELSE LET uid == Len(users) + 1
              p   == Len(pairs) + 1 IN
          /\ users' = Append(users, [email |-> e, is_active |-> TRUE, pw_ok |-> TRUE,
                                     pw |-> pw])
          /\ pairs' = Append(pairs, [sub |-> e, iat |-> now, uid |-> uid])
          /\ refresh_tokens' = refresh_tokens \cup {NewRefreshRow(p, uid, now)}
  /\ UNCHANGED <<now, token_blocklist, redis_client, lockout_window, rate_limit, redis_up, attempts, hist, inflight>>

\* POST /auth/login up to the point where the tokens are created: the status
\* code, the Redis keys, the user found, and the attempts reported as remaining.
\* `correct` says that the submitted password verifies against the stored hash
\* of the user found by the submitted address.
login(us, att, ip, e, correct, t, up) ==
  LET identifier == IdentifierOf(ip, e)
      rec  == record_failed_login(att, identifier, t, up)
      user == get_user_by_email(us, e) IN
  IF rec.locked
  THEN [status |-> 429, att |-> rec.att, user |-> NoUser, remaining |-> 0]
  ELSE IF user = NoUser \/ ~(correct /\ us[user].pw_ok)
  THEN [status |-> 401, att |-> rec.att, user |-> NoUser,
        remaining |-> get_remaining_attempts(rec.att, identifier, t, up)]
  ELSE [status |-> 200, att |-> reset_failed_logins(rec.att, identifier, up),
        user |-> user, remaining |-> 0]

\* history of one identifier: the time of the attempt that brought its count
\* to MaxAttempts, as long as the key lives and no login has succeeded
TriggerAfter(tr, id, att, status) ==
  IF status = 200 THEN NoTime
  ELSE IF RedisGet(attempts, id, now) < MaxAttempts /\ RedisGet(att, id, now) >= MaxAttempts
  THEN now
  ELSE tr

\* `cap` bounds the attempts counted for one identifier, `maxp` the pairs issued.
Login(ip, e, correct, cap, maxp) ==
  LET id == IdentifierOf(ip, e)
      r  == login(users, attempts, ip, e, correct, now, redis_client /\ redis_up)
      p  == Len(pairs) + 1
      h  == hist.streak[id]
  IN
  /\ RedisGet(attempts, id, now) < cap
  /\ h.fails < cap
  /\ correct => get_user_by_email(users, e) # NoUser
  /\ r.status = 200 => Len(pairs) < maxp
  /\ attempts' = r.att
  /\ pairs' = IF r.status = 200
              THEN Append(pairs, [sub |-> users[r.user].email, iat |-> now, uid |-> r.user])
              ELSE pairs
  /\ refresh_tokens' = IF r.status = 200
                       THEN refresh_tokens \cup {NewRefreshRow(p, r.user, now)}
                       ELSE refresh_tokens
  /\ hist' = [hist EXCEPT !.streak[id] = StreakAfter(h, now, correct, r.status),
                          !.trigger[id] = TriggerAfter(@, id, r.att, r.status)]
  /\ UNCHANGED <<now, users, token_blocklist, redis_client, lockout_window, rate_limit, redis_up, inflight>>

\* the Redis server becomes unreachable (every call of the client raises),
\* and reachable again; the keys it holds keep running out meanwhile
RedisDown ==
  /\ redis_up
  /\ redis_up' = FALSE
  /\ UNCHANGED <<now, users, refresh_tokens, token_blocklist, pairs, redis_client, lockout_window, rate_limit,
                 attempts, hist, inflight>>

RedisBack ==
  /\ ~redis_up
  /\ redis_up' = TRUE
  /\ UNCHANGED <<now, users, refresh_tokens, token_blocklist, pairs, redis_client, lockout_window, rate_limit,
                 attempts, hist, inflight>>

\* a request to an endpoint that depends on check_rate_limit_strict
Request(ip) ==
  LET c == check_rate_limit_strict(rate_limit, ip, now, redis_client /\ redis_up) IN
  /\ rate_limit' = c.rl
  /\ hist' = IF c.downstream /\ redis_client /\ redis_up
             THEN [hist EXCEPT !.recent[ip][0] = @ + 1]
             ELSE hist
  /\ UNCHANGED <<now, users, refresh_tokens, token_blocklist, pairs, redis_client,
                 lockout_window, redis_up, attempts, inflight>>

\* more than sixty seconds have passed since the last request that was let
\* through: Redis drops the minute key of the client
MinuteExpire(ip) ==
  /\ rate_limit[ip].minute > 0
  /\ rate_limit' = [rate_limit EXCEPT ![ip].minute = 0, ![ip].minute_ttl = 0]
  /\ hist' = [hist EXCEPT !.recent[ip] = NoneRecent]
  /\ UNCHANGED <<now, users, refresh_tokens, token_blocklist, pairs, redis_client,
                 lockout_window, redis_up, attempts, inflight>>

\* twenty seconds pass: Redis drops the minute keys whose sixty seconds are over
Elapse ==
  /\ rate_limit' = [ip \in IPs |->
       IF rate_limit[ip].minute_ttl <= 1
       THEN [rate_limit[ip] EXCEPT !.minute = 0, !.minute_ttl = 0]
       ELSE [rate_limit[ip] EXCEPT !.minute_ttl = @ - 1]]
  /\ hist' = [hist EXCEPT !.recent = [ip \in IPs |-> [age \in 0..MinuteQuanta |->
                 IF age = 0 THEN 0 ELSE @[ip][age - 1]]]]
  /\ UNCHANGED <<now, users, refresh_tokens, token_blocklist, pairs, redis_client,
                 lockout_window, redis_up, attempts, inflight>>

\* an account is deactivated in the database (is_active = False, the password
\* hash left as it is), as the fixture of test_login_inactive_user sets it up
Deactivate(u) ==
  /\ u \in UserIds
  /\ users[u].is_active
  /\ users' = [users EXCEPT ![u].is_active = FALSE]
  /\ UNCHANGED <<now, refresh_tokens, token_blocklist, pairs, redis_client, lockout_window, redis_up,
                 attempts, rate_limit, hist, inflight>>

\* ------------------------------------------------------- token endpoints
\* refresh that issues the new pair but leaves the presented row as it is
refresh_keeps_old(us, rt, bl, tok, p, t) ==
  LET v == verify_refresh_token(tok, us, rt, t) IN
  IF ~v.ok THEN [status |-> 401, rt |-> rt, bl |-> bl, user |-> NoUser]
  ELSE [status |-> 200, rt |-> rt \cup {NewRefreshRow(p, v.user, t)}, bl |-> bl,
        user |-> v.user]

\* refresh with reuse detection: a signed refresh token whose row is revoked
\* gets every token of the row's user revoked
refresh_reuse_revokes_family(us, rt, bl, tok, p, t) ==
  LET v     == verify_refresh_token(tok, us, rt, t)
      spent == {r \in rt : r.jti = tok /\ r.revoked} IN
  IF ~v.ok
  THEN IF spent = {} THEN [status |-> 401, rt |-> rt, bl |-> bl, user |-> NoUser]
       ELSE LET owner == (CHOOSE r \in spent : TRUE).user_id
                all   == revoke_all_user_tokens(rt, bl, owner, t) IN
            [status |-> 401, rt |-> all.rt, bl |-> all.bl, user |-> NoUser]
  ELSE LET old_token == CHOOSE r \in ActiveRows(rt, tok) : TRUE IN
       [status |-> 200,
        rt     |-> ((rt \ {old_token}) \cup {revoke(old_token, t)})
                     \cup {NewRefreshRow(p, v.user, t)},
        bl     |-> block_refresh_token(bl, old_token.jti, old_token.expires_at),
        user   |-> v.user]

\* POST /auth/refresh: 401, or the old row revoked and mirrored and the row
\* of the new refresh token RefreshOf(p) committed
refresh(us, rt, bl, tok, p, t) ==
  LET v == verify_refresh_token(tok, us, rt, t) IN
  IF ~v.ok THEN [status |-> 401, rt |-> rt, bl |-> bl, user |-> NoUser]
  ELSE LET old_token == CHOOSE r \in ActiveRows(rt, tok) : TRUE IN
       [status |-> 200,
        rt     |-> ((rt \ {old_token}) \cup {revoke(old_token, t)})
                     \cup {NewRefreshRow(p, v.user, t)},
        bl     |-> block_refresh_token(bl, old_token.jti, old_token.expires_at),
        user   |-> v.user]

\* header handling that decodes with the expiry check left on
logout_header_verify_exp(bl, hdr) ==
  IF hdr = NoTok \/ JwtError(hdr, now) THEN bl
  ELSE block_access_token(bl, hdr, ExpOf(hdr))

\* POST /auth/logout, the bearer token of the Authorization header
logout_header(bl, hdr) ==
  IF hdr = NoTok \/ JwtErrorNoExp(hdr) THEN bl
  ELSE block_access_token(bl, hdr, ExpOf(hdr))

\* logout that lets the 401 of verify_refresh_token through
logout_strict(us, rt, bl, hdr, body, t) ==
  LET bl1 == IF hdr = NoTok \/ JwtErrorNoExp(hdr) THEN bl
             ELSE block_access_token(bl, hdr, ExpOf(hdr))
      v   == IF body = NoTok THEN Refuse("absent")
             ELSE verify_refresh_token(body, us, rt, t) IN
  IF body = NoTok THEN [status |-> 204, rt |-> rt, bl |-> bl1]
  ELSE IF ~v.ok THEN [status |-> 401, rt |-> rt, bl |-> bl1]
  ELSE LET token == CHOOSE r \in ActiveRows(rt, body) : TRUE IN
       [status |-> 204,
        rt     |-> (rt \ {token}) \cup {revoke(token, t)},
        bl     |-> block_refresh_token(bl1, token.jti, token.expires_at)]

\* POST /auth/logout: always 204
logout(us, rt, bl, hdr, body, t) ==
  LET bl1 == logout_header(bl, hdr)
      v   == IF body = NoTok THEN Refuse("absent")
             ELSE verify_refresh_token(body, us, rt, t) IN
  IF ~v.ok THEN [status |-> 204, rt |-> rt, bl |-> bl1]
  ELSE LET token == CHOOSE r \in ActiveRows(rt, body) : TRUE IN
       [status |-> 204,
        rt     |-> (rt \ {token}) \cup {revoke(token, t)},
        bl     |-> block_refresh_token(bl1, token.jti, token.expires_at)]

\* logout-all that blocklists every access token minted for the user
RECURSIVE BlockAccessOf(_, _)
BlockAccessOf(bl, toks) ==
  IF toks = {} THEN bl
  ELSE LET x == CHOOSE y \in toks : TRUE IN
       BlockAccessOf(block_access_token(bl, x, ExpOf(x)), toks \ {x})
logout_all_blocks_every_access(us, rt, bl, tok, t) ==
  LET current_user == get_current_user(tok, us, bl, t) IN
  IF current_user.status # 200
  THEN [status |-> current_user.status, rt |-> rt, bl |-> bl, count |-> 0, user |-> NoUser]
  ELSE LET result == revoke_all_user_tokens(rt, bl, current_user.user, t) IN
       [status |-> 204,
        rt     |-> result.rt,
        bl     |-> BlockAccessOf(result.bl,
                     {A \in AccessTokens : pairs[A[2]].uid = current_user.user}),
        count  |-> result.count,
        user   |-> current_user.user]

\* POST /auth/logout-all
logout_all_devices(us, rt, bl, tok, t) ==
  LET current_user == get_current_user(tok, us, bl, t) IN
  IF current_user.status # 200
  THEN [status |-> current_user.status, rt |-> rt, bl |-> bl, count |-> 0, user |-> NoUser]
  ELSE LET result == revoke_all_user_tokens(rt, bl, current_user.user, t) IN
       [status |-> 204,
        rt     |-> result.rt,
        bl     |-> IF JwtErrorNoExp(tok) THEN result.bl
                   ELSE block_access_token(result.bl, tok, ExpOf(tok)),
        count  |-> result.count,
        user   |-> current_user.user]

Refresh(tok, maxp) ==
  LET p == Len(pairs) + 1
      r == refresh(users, refresh_tokens, token_blocklist, tok, p, now) IN
  /\ r.status = 200 => Len(pairs) < maxp
  /\ refresh_tokens' = r.rt
  /\ token_blocklist' = r.bl
  /\ pairs' = IF r.status = 200
              THEN Append(pairs, [sub |-> users[r.user].email, iat |-> now, uid |-> r.user])
              ELSE pairs
  /\ hist' = IF r.status = 200 THEN [hist EXCEPT !.rotated = @ \cup {tok}] ELSE hist
  /\ UNCHANGED <<now, users, redis_client, lockout_window, rate_limit, redis_up, attempts, inflight>>

Logout(hdr, body) ==
  LET r == logout(users, refresh_tokens, token_blocklist, hdr, body, now) IN
  /\ refresh_tokens' = r.rt
  /\ token_blocklist' = r.bl
  /\ hist' = [hist EXCEPT
                !.outAcc = IF hdr[1] = "access" /\ SignatureOk(hdr) THEN @ \cup {hdr} ELSE @,
                !.outRef = IF body # NoTok
                              /\ verify_refresh_token(body, users, refresh_tokens, now).ok
                           THEN @ \cup {body} ELSE @]
  /\ UNCHANGED <<now, users, pairs, redis_client, lockout_window, rate_limit, redis_up, attempts, inflight>>

LogoutAll(tok) ==
  LET r == logout_all_devices(users, refresh_tokens, token_blocklist, tok, now) IN
  /\ refresh_tokens' = r.rt
  /\ token_blocklist' = r.bl
  /\ hist' = IF r.status # 204 THEN hist
             ELSE [hist EXCEPT
                     !.allRef = @ \cup {x.jti : x \in {y \in refresh_tokens :
                                                        y.user_id = r.user /\ ~y.revoked}},
                     !.allAcc = @ \cup {tok}]
  /\ UNCHANGED <<now, users, pairs, redis_client, lockout_window, rate_limit, redis_up, attempts, inflight>>

\* delete_me: the row of the user after its commit
Anonymized(uid) ==
  [email |-> DeletedEmail(uid), is_active |-> FALSE, pw_ok |-> FALSE, pw |-> NoPassword]

\* the address and the password an account had when it was deleted
FormerCredentials(uid) == [uid |-> uid, email |-> users[uid].email, pw |-> users[uid].pw]

\* DELETE /auth/me
DeleteMe(tok) ==
  LET cu == get_current_user(tok, users, token_blocklist, now) IN
  /\ IF cu.status # 200
     THEN UNCHANGED <<users, refresh_tokens, token_blocklist>>
     ELSE LET result == revoke_all_user_tokens(refresh_tokens, token_blocklist, cu.user, now) IN
          /\ refresh_tokens' = result.rt
          /\ token_blocklist' = result.bl
          /\ users' = [users EXCEPT ![cu.user] = Anonymized(cu.user)]
  /\ hist' = IF cu.status # 200 THEN hist
             ELSE [hist EXCEPT !.deleted = @ \cup {FormerCredentials(cu.user)}]
  /\ UNCHANGED <<now, pairs, redis_client, lockout_window, rate_limit, redis_up, attempts, inflight>>

\* a cleanup that deletes the blocklist entries about to expire as well
cleanup_expired_tokens_early(rt, bl, t) ==
  [bl |-> {b \in bl : ~(b.expires_at < t + AccessTTL)},
   rt |-> {r \in rt : ~(r.expires_at < t - AuditGrace /\ r.revoked)}]

\* maintenance.cleanup_expired_tokens: the two tables after its DELETEs
cleanup_expired_tokens(rt, bl, t) ==
  [bl |-> {b \in bl : ~(b.expires_at < t)},
   rt |-> {r \in rt : ~(r.expires_at < t - AuditGrace /\ r.revoked)}]

\* celery task maintenance.cleanup_expired_tokens
Cleanup ==
  /\ token_blocklist' = cleanup_expired_tokens(refresh_tokens, token_blocklist, now).bl
  /\ refresh_tokens' = cleanup_expired_tokens(refresh_tokens, token_blocklist, now).rt
  /\ UNCHANGED <<now, users, pairs, redis_client, lockout_window, rate_limit, redis_up, attempts, hist, inflight>>

\* ------------------------------------------- requests, commit by commit
\* SessionLocal is made with autoflush=False: what a session has changed
\* reaches the database at its next commit, and is dropped when the request
\* dies before that.

\* the UPDATE a commit flushes for a row the session has revoked (by primary
\* key, whatever the row holds by then)
FlushRevoke(rt, jti, t) == {IF r.jti = jti THEN revoke(r, t) ELSE r : r \in rt}

\* a block_refresh_token that commits its entry without the pending
\* revocation (the entry written through a session of its own)
block_refresh_token_commit_alone(rt, bl, jti, expires_at, t) ==
  IF (\E b \in bl : b.jti = jti) \/ ~\E r \in rt : r.jti = jti
  THEN [ok |-> FALSE, rt |-> rt, bl |-> bl]
  ELSE [ok |-> TRUE, rt |-> rt, bl |-> bl \cup {BlockEntry(jti, "refresh", expires_at)}]

\* a block_refresh_token whose INSERT meets no unique constraint on jti
block_refresh_token_commit_no_unique(rt, bl, jti, expires_at, t) ==
  IF ~\E r \in rt : r.jti = jti
  THEN [ok |-> FALSE, rt |-> rt, bl |-> bl]
  ELSE [ok |-> TRUE, rt |-> FlushRevoke(rt, jti, t),
        bl |-> bl \cup {BlockEntry(jti, "refresh", expires_at)}]

\* auth.block_refresh_token, after its query found no entry: db.add(blocked);
\* db.commit().  The commit carries the pending revocation of the row with it;
\* it fails (the request ends in a 500, the session is rolled back) when an
\* entry with the jti has been committed meanwhile or the row is gone.
block_refresh_token_commit(rt, bl, jti, expires_at, t) ==
  IF (\E b \in bl : b.jti = jti) \/ ~\E r \in rt : r.jti = jti
  THEN [ok |-> FALSE, rt |-> rt, bl |-> bl]
  ELSE [ok |-> TRUE, rt |-> FlushRevoke(rt, jti, t),
        bl |-> bl \cup {BlockEntry(jti, "refresh", expires_at)}]

\* auth.create_refresh_token: db.add(db_token); db.commit().  `dirty` says
\* that the revocation of the presented row is still pending in the session.
create_refresh_token_commit(rt, jti, dirty, p, uid, t) ==
  IF dirty /\ ~\E r \in rt : r.jti = jti
  THEN [ok |-> FALSE, rt |-> rt]
  ELSE [ok |-> TRUE,
        rt |-> (IF dirty THEN FlushRevoke(rt, jti, t) ELSE rt)
                 \cup {NewRefreshRow(p, uid, t)}]

\* a revoke-all that revokes row by row, each row with a commit of its own,
\* and gets no further than the first
revoke_all_user_tokens_commit_rowwise(rt, bl, uid, seen, t) ==
  LET first   == IF seen = {} THEN {} ELSE {CHOOSE j \in seen : \A k \in seen : j[2] <= k[2]}
      updated == {IF r.jti \in first THEN revoke(r, t) ELSE r : r \in rt}
  IN [rt |-> updated, bl |-> bl]

\* auth.revoke_all_user_tokens from its UPDATE on: the statement has matched
\* the rows `seen`; the SELECT that follows returns the rows of the user that
\* are not revoked in the session's view; db.commit() makes all of it durable.
revoke_all_user_tokens_commit(rt, bl, uid, seen, t) ==
  LET updated == {IF r.jti \in seen THEN revoke(r, t) ELSE r : r \in rt}
      still   == {r \in updated : r.user_id = uid /\ ~r.revoked}
  IN [rt |-> updated, bl |-> BlockAll(bl, still)]

\* POST /auth/refresh, verify_refresh_token and old_token.revoke()
RefreshVerify(r, tok) ==
  LET v == verify_refresh_token(tok, users, refresh_tokens, now) IN
  /\ inflight[r] = Idle
  /\ v.ok
  /\ inflight' = [inflight EXCEPT ![r] =
       [Idle EXCEPT !.op = "refresh", !.pc = "verified", !.tok = tok,
                    !.user = v.user, !.dirty = TRUE]]
  /\ UNCHANGED <<now, users, refresh_tokens, token_blocklist, pairs, redis_client, lockout_window, rate_limit, redis_up,
                 attempts, hist>>

\* POST /auth/refresh, the query of block_refresh_token
RefreshBlockQuery(r) ==
  /\ inflight[r].op = "refresh" /\ inflight[r].pc = "verified"
  /\ inflight' = [inflight EXCEPT ![r].pc =
       IF \E b \in token_blocklist : b.jti = inflight[r].tok
       THEN "blocked" ELSE "inserting"]
  /\ UNCHANGED <<now, users, refresh_tokens, token_blocklist, pairs, redis_client, lockout_window, rate_limit, redis_up,
                 attempts, hist>>

\* POST /auth/refresh, the commit of block_refresh_token
RefreshBlockCommit(r) ==
  LET tok == inflight[r].tok
      c   == block_refresh_token_commit(refresh_tokens, token_blocklist, tok,
                                        ExpOf(tok), now) IN
  /\ inflight[r].op = "refresh" /\ inflight[r].pc = "inserting"
  /\ refresh_tokens' = c.rt
  /\ token_blocklist' = c.bl
  /\ inflight' = [inflight EXCEPT ![r] =
       IF c.ok THEN [@ EXCEPT !.pc = "blocked", !.dirty = FALSE] ELSE Idle]
  /\ UNCHANGED <<now, users, pairs, redis_client, lockout_window, rate_limit, redis_up, attempts, hist>>

\* POST /auth/refresh, create_access_token and create_refresh_token: the
\* response carries the pair p
RefreshIssue(r, maxp) ==
  LET tok == inflight[r].tok
      p   == Len(pairs) + 1
      c   == create_refresh_token_commit(refresh_tokens, tok, inflight[r].dirty, p,
                                         inflight[r].user, now) IN
  /\ inflight[r].op = "refresh" /\ inflight[r].pc = "blocked"
  /\ Len(pairs) < maxp
  /\ refresh_tokens' = c.rt
  /\ pairs' = IF c.ok
              THEN Append(pairs, [sub |-> users[inflight[r].user].email, iat |-> now,
                                  uid |-> inflight[r].user])
              ELSE pairs
  /\ hist' = IF c.ok THEN [hist EXCEPT !.succ = @ \cup {<<tok, p>>}] ELSE hist
  /\ inflight' = [inflight EXCEPT ![r] = Idle]
  /\ UNCHANGED <<now, users, token_blocklist, redis_client, lockout_window, rate_limit, redis_up, attempts>>

\* POST /auth/logout-all, get_current_user and the UPDATE of revoke_all_user_tokens
LogoutAllUpdate(r, tok) ==
  LET cu == get_current_user(tok, users, token_blocklist, now) IN
  /\ inflight[r] = Idle
  /\ cu.status = 200
  /\ inflight' = [inflight EXCEPT ![r] =
       [Idle EXCEPT !.op = "logout_all", !.pc = "updated", !.tok = tok,
                    !.user = cu.user, !.dirty = TRUE,
                    !.seen = {x.jti : x \in {y \in refresh_tokens :
                                               y.user_id = cu.user /\ ~y.revoked}}]]
  /\ UNCHANGED <<now, users, refresh_tokens, token_blocklist, pairs, redis_client, lockout_window, rate_limit, redis_up,
                 attempts, hist>>

\* POST /auth/logout-all, the rest of revoke_all_user_tokens up to its commit
LogoutAllCommit(r) ==
  LET c == revoke_all_user_tokens_commit(refresh_tokens, token_blocklist,
                                         inflight[r].user, inflight[r].seen, now) IN
  /\ inflight[r].op = "logout_all" /\ inflight[r].pc = "updated"
  /\ refresh_tokens' = c.rt
  /\ token_blocklist' = c.bl
  /\ inflight' = [inflight EXCEPT ![r].pc = "revoked", ![r].dirty = FALSE]
  /\ UNCHANGED <<now, users, pairs, redis_client, lockout_window, rate_limit, redis_up, attempts, hist>>

\* POST /auth/logout-all, block_access_token for the presented token
LogoutAllBlock(r) ==
  LET tok == inflight[r].tok IN
  /\ inflight[r].op = "logout_all" /\ inflight[r].pc = "revoked"
  /\ token_blocklist' = block_access_token(token_blocklist, tok, ExpOf(tok))
  /\ inflight' = [inflight EXCEPT ![r] = Idle]
  /\ UNCHANGED <<now, users, refresh_tokens, pairs, redis_client, lockout_window, rate_limit, redis_up, attempts, hist>>

\* the response of a logout handled step by step, kept for the properties
Answer(r, status) ==
  [hist EXCEPT !.answered = @ \cup {[hdr |-> inflight[r].tok, body |-> inflight[r].body,
                                      status |-> status]}]

\* auth.block_access_token, after its query found no entry: db.add(blocked);
\* db.commit().  The INSERT fails on the unique constraint of jti when an entry
\* with the jti has been committed meanwhile.
block_access_token_commit(bl, jti, expires_at) ==
  IF \E b \in bl : b.jti = jti
  THEN [ok |-> FALSE, bl |-> bl]
  ELSE [ok |-> TRUE, bl |-> bl \cup {BlockEntry(jti, "access", expires_at)}]

\* POST /auth/logout, the header decoded and the query of block_access_token
LogoutHeaderQuery(r, hdr, body) ==
  /\ inflight[r] = Idle
  /\ ~JwtErrorNoExp(hdr)
  /\ inflight' = [inflight EXCEPT ![r] =
       [Idle EXCEPT !.op = "logout", !.tok = hdr, !.body = body,
                    !.pc = IF \E b \in token_blocklist : b.jti = hdr
                           THEN "header_done" ELSE "header_inserting"]]
  /\ UNCHANGED <<now, users, refresh_tokens, token_blocklist, pairs, redis_client, lockout_window,
                 rate_limit, redis_up, attempts, hist>>

\* POST /auth/logout, the commit of block_access_token: an IntegrityError is
\* no JWTError, it leaves the handler and the request ends in a 500
LogoutHeaderCommit(r) ==
  LET hdr == inflight[r].tok
      c   == block_access_token_commit(token_blocklist, hdr, ExpOf(hdr)) IN
  /\ inflight[r].op = "logout" /\ inflight[r].pc = "header_inserting"
  /\ token_blocklist' = c.bl
  /\ inflight' = [inflight EXCEPT ![r] = IF c.ok THEN [@ EXCEPT !.pc = "header_done"] ELSE Idle]
  /\ hist' = IF c.ok THEN hist ELSE Answer(r, 500)
  /\ UNCHANGED <<now, users, refresh_tokens, pairs, redis_client, lockout_window, rate_limit, redis_up,
                 attempts>>

\* POST /auth/logout, the body: verify_refresh_token (its 401 is swallowed and
\* the answer is 204), token.revoke() and the query of block_refresh_token
LogoutBodyVerify(r) ==
  LET body == inflight[r].body
      v    == IF body = NoTok THEN Refuse("absent")
              ELSE verify_refresh_token(body, users, refresh_tokens, now) IN
  /\ inflight[r].op = "logout" /\ inflight[r].pc = "header_done"
  /\ inflight' = [inflight EXCEPT ![r] =
       IF ~v.ok THEN Idle
       ELSE [@ EXCEPT !.dirty = TRUE,
                      !.pc = IF \E b \in token_blocklist : b.jti = body
                             THEN "body_blocked" ELSE "body_inserting"]]
  /\ hist' = IF ~v.ok THEN Answer(r, 204) ELSE hist
  /\ UNCHANGED <<now, users, refresh_tokens, token_blocklist, pairs, redis_client, lockout_window,
                 rate_limit, redis_up, attempts>>

\* POST /auth/logout, the body: the commit of block_refresh_token, or the
\* db.commit() of the handler when the entry was there, and the 204.  Only an
\* HTTPException is swallowed: a failed commit ends the request in a 500.
LogoutBodyCommit(r) ==
  LET body == inflight[r].body
      c    == IF inflight[r].pc = "body_inserting"
              THEN block_refresh_token_commit(refresh_tokens, token_blocklist, body,
                                              ExpOf(body), now)
              ELSE [ok |-> \E x \in refresh_tokens : x.jti = body,
                    rt |-> FlushRevoke(refresh_tokens, body, now),
                    bl |-> token_blocklist] IN
  /\ inflight[r].op = "logout" /\ inflight[r].pc \in {"body_inserting", "body_blocked"}
  /\ refresh_tokens' = c.rt
  /\ token_blocklist' = c.bl
  /\ inflight' = [inflight EXCEPT ![r] = Idle]
  /\ hist' = Answer(r, IF c.ok THEN 204 ELSE 500)
  /\ UNCHANGED <<now, users, pairs, redis_client, lockout_window, rate_limit, redis_up, attempts>>

\* DELETE /auth/me, get_current_user and revoke_all_user_tokens with its commit
DeleteMeRevoke(r, tok) ==
  LET cu     == get_current_user(tok, users, token_blocklist, now)
      result == revoke_all_user_tokens(refresh_tokens, token_blocklist, cu.user, now) IN
  /\ inflight[r] = Idle
  /\ cu.status = 200
  /\ refresh_tokens' = result.rt
  /\ token_blocklist' = result.bl
  /\ inflight' = [inflight EXCEPT ![r] =
       [Idle EXCEPT !.op = "delete_me", !.pc = "revoked", !.tok = tok, !.user = cu.user]]
  /\ UNCHANGED <<now, users, pairs, redis_client, lockout_window, rate_limit, redis_up, attempts, hist>>

\* DELETE /auth/me, from user.is_active = False to its db.commit()
DeleteMeCommit(r) ==
  LET uid == inflight[r].user IN
  /\ inflight[r].op = "delete_me" /\ inflight[r].pc = "revoked"
  /\ users' = [users EXCEPT ![uid] = Anonymized(uid)]
  /\ hist' = [hist EXCEPT !.deleted = @ \cup {FormerCredentials(uid)}]
  /\ inflight' = [inflight EXCEPT ![r] = Idle]
  /\ UNCHANGED <<now, refresh_tokens, token_blocklist, pairs, redis_client, lockout_window, rate_limit,
                 redis_up, attempts>>

\* POST /auth/login with a wrong password, record_failed_login up to its
\* redis_client.get(key): the count it read stays with the request
LoginGet(r, ip, e, cap) ==
  /\ inflight[r] = Idle
  /\ redis_client /\ redis_up
  /\ hist.recorded[IdentifierOf(ip, e)] < cap
  /\ inflight' = [inflight EXCEPT ![r] =
       [Idle EXCEPT !.op = "login", !.pc = "read", !.key = IdentifierOf(ip, e),
                    !.count = RedisGet(attempts, IdentifierOf(ip, e), now)]]
  /\ UNCHANGED <<now, users, refresh_tokens, token_blocklist, pairs, redis_client, lockout_window,
                 redis_up, attempts, rate_limit, hist>>

\* POST /auth/login with a wrong password, from redis_client.setex(key, ttl,
\* attempt_count + 1) to the 401 or 429
LoginSetex(r) ==
  LET id == inflight[r].key IN
  /\ inflight[r].op = "login" /\ inflight[r].pc = "read"
  /\ attempts' = [attempts EXCEPT ![id] =
                    [n |-> inflight[r].count + 1, exp |-> now + lockout_window]]
  /\ hist' = [hist EXCEPT !.recorded[id] = @ + 1]
  /\ inflight' = [inflight EXCEPT ![r] = Idle]
  /\ UNCHANGED <<now, users, refresh_tokens, token_blocklist, pairs, redis_client, lockout_window,
                 redis_up, rate_limit>>

\* a rate-limited request, check_rate_limit up to its two reads: both keys are
\* below their limits (a refused request ends here and changes nothing)
RequestGet(r, ip) ==
  /\ inflight[r] = Idle
  /\ redis_client /\ redis_up
  /\ rate_limit[ip].minute < LimitPerMinute
  /\ rate_limit[ip].hour < LimitPerHour
  /\ inflight' = [inflight EXCEPT ![r] =
       [Idle EXCEPT !.op = "request", !.pc = "checked", !.key = <<ip, 0>>]]
  /\ UNCHANGED <<now, users, refresh_tokens, token_blocklist, pairs, redis_client, lockout_window,
                 redis_up, attempts, rate_limit, hist>>

\* a rate-limited request, the pipeline of check_rate_limit: INCR and EXPIRE
\* of both keys, executed by Redis as one transaction
RequestIncr(r) ==
  LET ip == inflight[r].key[1] IN
  /\ inflight[r].op = "request" /\ inflight[r].pc = "checked"
  /\ rate_limit' = [rate_limit EXCEPT ![ip] =
                      [minute |-> @.minute + 1, minute_ttl |-> MinuteQuanta,
                                   hour |-> @.hour + 1,
                       hour_exp |-> now + HourWindow]]
  /\ hist' = [hist EXCEPT !.allowed[ip] = @ + 1]
  /\ inflight' = [inflight EXCEPT ![r] = Idle]
  /\ UNCHANGED <<now, users, refresh_tokens, token_blocklist, pairs, redis_client, lockout_window,
                 redis_up, attempts>>

\* the worker dies, or the connection is lost, in the middle of a request:
\* get_db closes the session and what it had not committed is rolled back
Crash(r) ==
  /\ inflight[r] # Idle
  /\ inflight' = [inflight EXCEPT ![r] = Idle]
  /\ hist' = IF inflight[r].op = "logout_all" /\ inflight[r].pc = "updated"
             THEN [hist EXCEPT !.died = inflight[r].seen]
             ELSE hist
  /\ UNCHANGED <<now, users, refresh_tokens, token_blocklist, pairs, redis_client, lockout_window, rate_limit, redis_up,
                 attempts>>

\* The requests clients send.  A token input is drawn from the tokens that
\* the handler can act on; an input that the handler refuses (garbage, a token
\* of the other type) leaves every table as it is, and the properties below
\* quantify over those inputs in every reachable state.
InitTokens == Init /\ redis_client = TRUE

Next ==
  \/ Tick
  \/ \E e \in Emails : Register(e, 1, MaxPairs)
  \/ \E ip \in IPs, e \in Emails : Login(ip, e, TRUE, MaxCount, MaxPairs)
  \/ \E tok \in RefreshTokens : Refresh(tok, MaxPairs)
  \/ \E hdr \in Issued \cup {NoTok}, body \in RefreshTokens \cup {NoTok} : Logout(hdr, body)
  \/ \E tok \in AccessTokens : LogoutAll(tok)
  \/ \E tok \in AccessTokens : DeleteMe(tok)
  \/ Cleanup

\* the token endpoints, with Redis connected and passwords typed correctly
\* (a wrong password touches nothing but the keys of the guard: SpecGuard)
Spec == InitTokens /\ [][Next]_vars

\* the login endpoint alone, for one identifier, its attempts counted up to MaxCount
NextGuard ==
  \/ Tick
  \/ \E e \in Emails : Register(e, 1, MaxPairs)
  \/ \E ip \in IPs, e \in Emails, c \in BOOLEAN : Login(ip, e, c, MaxCount, MaxPairs)

SpecGuard == Init /\ [][NextGuard]_vars

\* the login endpoint while the Redis server comes and goes
NextOutage ==
  \/ Tick
  \/ \E e \in Emails : Register(e, 1, MaxPairs)
  \/ \E ip \in IPs, e \in Emails, c \in BOOLEAN : Login(ip, e, c, MaxCount, MaxPairs)
  \/ RedisDown
  \/ RedisBack

SpecOutage == Init /\ [][NextOutage]_vars

\* the login endpoint next to accounts that are deactivated in the database
NextAccounts ==
  \/ Tick
  \/ \E e \in Emails : Register(e, 1, MaxPairs)
  \/ \E ip \in IPs, e \in Emails, c \in BOOLEAN : Login(ip, e, c, MaxCount, MaxPairs)
  \/ \E u \in 1..MaxUsers : Deactivate(u)

SpecAccounts == Init /\ [][NextAccounts]_vars

\* the requests of clients to a rate-limited endpoint while the Redis server
\* comes and goes
NextLimiter ==
  \/ Tick
  \/ \E ip \in IPs : Request(ip)
  \/ \E ip \in IPs : MinuteExpire(ip)
  \/ RedisDown
  \/ RedisBack

SpecLimiter == Init /\ [][NextLimiter]_vars

\* sessions of the users: tokens are issued, rotated and revoked all at once,
\* with one more pair than in Spec
NextSessions ==
  \/ Tick
  \/ \E e \in Emails : Register(e, 1, MaxPairs + 1)
  \/ \E ip \in IPs, e \in Emails : Login(ip, e, TRUE, MaxCount, MaxPairs + 1)
  \/ \E tok \in RefreshTokens : Refresh(tok, MaxPairs + 1)
  \/ \E tok \in AccessTokens : LogoutAll(tok)
  \/ Cleanup

SpecSessions == InitTokens /\ [][NextSessions]_vars

\* refresh handled commit by commit, by concurrent requests that may die at
\* any point; a logout that presents a refresh token as its bearer token
\* puts that token's jti into the blocklist beforehand
NextRotation ==
  \/ \E e \in Emails : Register(e, 1, MaxPairs + 1)
  \/ \E ip \in IPs, e \in Emails : Login(ip, e, TRUE, MaxCount, MaxPairs + 1)
  \/ \E tok \in RefreshTokens : Logout(tok, NoTok)
  \/ \E r \in Reqs, tok \in RefreshTokens : RefreshVerify(r, tok)
  \/ \E r \in Reqs : RefreshBlockQuery(r)
  \/ \E r \in Reqs : RefreshBlockCommit(r)
  \/ \E r \in Reqs : RefreshIssue(r, MaxPairs + 1)
  \/ \E r \in Reqs : Crash(r)

SpecRotation == InitTokens /\ [][NextRotation]_vars

\* logout-all handled commit by commit, by concurrent requests that may die at
\* any point, next to logins and rotations handled by other requests
NextRevokeAll ==
  \/ \E e \in Emails : Register(e, 1, MaxPairs)
  \/ \E ip \in IPs, e \in Emails : Login(ip, e, TRUE, MaxCount, MaxPairs)
  \/ \E tok \in RefreshTokens : Refresh(tok, MaxPairs)
  \/ \E r \in Reqs, tok \in AccessTokens : LogoutAllUpdate(r, tok)
  \/ \E r \in Reqs : LogoutAllCommit(r)
  \/ \E r \in Reqs : LogoutAllBlock(r)
  \/ \E r \in Reqs : Crash(r)

SpecRevokeAll == InitTokens /\ [][NextRevokeAll]_vars

\* the Redis counters under concurrent requests, call by call: failed logins
\* and rate-limited requests, with no key running out and no reset in between
NextCounters ==
  \/ \E r \in Reqs, ip \in IPs, e \in Emails : LoginGet(r, ip, e, MaxCount)
  \/ \E r \in Reqs : LoginSetex(r)
  \/ \E r \in Reqs, ip \in IPs : RequestGet(r, ip)
  \/ \E r \in Reqs : RequestIncr(r)

SpecCounters == InitTokens /\ [][NextCounters]_vars

\* the login endpoint reached from several client addresses with several
\* usernames, within one lockout window
NextScopes ==
  \/ \E e \in Emails : Register(e, 1, MaxPairs)
  \/ \E ip \in Clients, e \in Usernames, c \in BOOLEAN :
       Login(ip, e, c, MaxAttempts, MaxPairs)

SpecScopes == InitTokens /\ [][NextScopes]_vars

\* accounts are deleted while other requests are handled: DELETE /auth/me
\* commit by commit, next to registrations, logins and rotations
NextDeletion ==
  \/ \E e \in Emails, pw \in Passwords : Register(e, pw, MaxPairs + 1)
  \/ \E ip \in IPs, e \in Emails : Login(ip, e, TRUE, MaxCount, MaxPairs + 1)
  \/ \E tok \in RefreshTokens : Refresh(tok, MaxPairs + 1)
  \/ \E r \in Reqs, tok \in AccessTokens : DeleteMeRevoke(r, tok)
  \/ \E r \in Reqs : DeleteMeCommit(r)

SpecDeletion == InitTokens /\ [][NextDeletion]_vars

\* logout handled round trip by round trip, by concurrent requests
NextLogout ==
  \/ Tick
  \/ \E e \in Emails : Register(e, 1, MaxPairs)
  \/ \E r \in Reqs, hdr \in AccessTokens, body \in RefreshTokens \cup {NoTok} :
       LogoutHeaderQuery(r, hdr, body)
  \/ \E r \in Reqs : LogoutHeaderCommit(r)
  \/ \E r \in Reqs : LogoutBodyVerify(r)
  \/ \E r \in Reqs : LogoutBodyCommit(r)

SpecLogout == InitTokens /\ [][NextLogout]_vars

\* two accounts side by side: sessions are opened, rotated and revoked all at
\* once while the refresh tokens run out
NextTenants ==
  \/ Tick
  \/ \E e \in Addresses : Register(e, 1, MaxPairs + 1)
  \/ \E ip \in IPs, e \in Addresses : Login(ip, e, TRUE, MaxCount, MaxPairs + 1)
  \/ \E tok \in RefreshTokens : Refresh(tok, MaxPairs + 1)
  \/ \E tok \in AccessTokens : LogoutAll(tok)

SpecTenants == InitTokens /\ [][NextTenants]_vars

\* the login endpoint of a deployment whose lockout window is configured to
\* one tick or more
InitConfigured == \E w \in LockoutWindow..MaxWindow : InitWith(w) /\ redis_client = TRUE

NextLockout ==
  \/ Tick
  \/ \E e \in Emails : Register(e, 1, MaxPairs)
  \/ \E ip \in IPs, e \in Emails, c \in BOOLEAN : Login(ip, e, c, MaxCount + 1, MaxPairs)

SpecLockout == InitConfigured /\ [][NextLockout]_vars

\* one client sends requests to a rate-limited endpoint, twenty seconds or
\* more apart, within one tick
NextWindow ==
  \/ \E ip \in IPs : Request(ip)
  \/ Elapse

SpecWindow == InitTokens /\ [][NextWindow]_vars

\* ------------------------------------------------------------ properties
RevokedDetail == "Token has been revoked or does not exist"

\* C1: rotation is single-use.  Once POST /auth/refresh has succeeded with a
\* refresh token R, in every later state (whatever happened in between)
\* verify_refresh_token refuses R, as revoked unless the JWT itself has run
\* out, so that a refresh with R answers 401 and a logout with R in the body
\* changes neither table.
RotationSingleUse ==
  \A R \in hist.rotated :
    LET v == verify_refresh_token(R, users, refresh_tokens, now)
        r == refresh(users, refresh_tokens, token_blocklist, R, Len(pairs) + 1, now)
        o == logout(users, refresh_tokens, token_blocklist, NoTok, R, now) IN
    /\ ~v.ok
    /\ v.detail = RevokedDetail \/ JwtExpired(R, now)
    /\ r.status = 401 /\ r.rt = refresh_tokens /\ r.bl = token_blocklist
    /\ o.rt = refresh_tokens /\ o.bl = token_blocklist

\* a rotated token whose JWT is still good and whose revoked row is still stored
RotatedTokenPresentedAgain ==
  \E R \in hist.rotated :
    /\ ~JwtExpired(R, now)
    /\ \E row \in refresh_tokens : row.jti = R /\ row.revoked
    /\ \E row \in refresh_tokens : row.jti # R /\ ~row.revoked

\* the users on whose behalf logout-all has completed and who still have
\* their credentials (DELETE /auth/me has not anonymised the account)
LoggedOutAll == {u \in UserIds : users[u].pw_ok /\ \E A \in hist.allAcc : pairs[A[2]].uid = u}

\* the refresh token minted last verifies
NewestRefreshUsable ==
  /\ Len(pairs) > 0
  /\ verify_refresh_token(RefreshOf(Len(pairs)), users, refresh_tokens, now).ok

\* C2: revoke-all completeness.  Every refresh token that was active for a
\* user when logout-all completed for that user is refused from then on by
\* verify_refresh_token and by refresh; a login of that user with the correct
\* password answers 200 in every later state, and the refresh token such a
\* login returns verifies.
RevokeAllComplete ==
  /\ [](\A R \in hist.allRef :
          /\ ~verify_refresh_token(R, users, refresh_tokens, now).ok
          /\ refresh(users, refresh_tokens, token_blocklist, R, Len(pairs) + 1, now).status = 401)
  /\ [](\A u \in LoggedOutAll : \A ip \in IPs :
          login(users, attempts, ip, users[u].email, TRUE, now, redis_client).status = 200)
  /\ [][\A u \in LoggedOutAll : \A ip \in IPs :
          Login(ip, users[u].email, TRUE, MaxCount, MaxPairs + 1)
            => (Len(pairs') = Len(pairs) + 1 /\ NewestRefreshUsable')]_vars

\* logout-all has revoked two sessions of a user, and the user has logged in
\* again
LoginAfterRevokeAll ==
  \E u \in LoggedOutAll :
    /\ Cardinality({R \in hist.allRef : pairs[R[2]].uid = u}) >= 2
    /\ \E row \in refresh_tokens :
         row.user_id = u /\ ~row.revoked /\ row.jti \notin hist.allRef

\* C3: after a logout that presented a validly signed access token A in the
\* Authorization header and/or an active refresh token R in the body, every
\* later get_current_user on A is rejected and every later refresh with R
\* answers 401.
LogoutRejectsForever ==
  /\ \A A \in hist.outAcc :
       get_current_user(A, users, token_blocklist, now).status # 200
  /\ \A R \in hist.outRef :
       refresh(users, refresh_tokens, token_blocklist, R, Len(pairs) + 1, now).status = 401

UnsignedInputs == Garbage \cup {NoTok}
ExpiredAccess(t) == {A \in AccessTokens : JwtExpired(A, t)}
DeadRefresh(t) ==
  {R \in RefreshTokens :
     \/ JwtExpired(R, t)
     \/ \A row \in refresh_tokens : row.jti = R => (row.revoked \/ row.expires_at <= t)}

\* C5 as stated: for each of those inputs the logout answers 204 and leaves
\* every row of refresh_tokens and of token_blocklist as it is.
LogoutSkipsInvalid ==
  \A hdr \in UnsignedInputs \cup ExpiredAccess(now),
     body \in UnsignedInputs \cup DeadRefresh(now) :
    LET o == logout(users, refresh_tokens, token_blocklist, hdr, body, now) IN
    o.status = 204 /\ o.rt = refresh_tokens /\ o.bl = token_blocklist

\* C5, amended: for each of those inputs the logout answers 204 and leaves
\* every row of refresh_tokens as it is; token_blocklist is left as it is
\* too, except that an expired, validly signed access token without an entry
\* gets one (type access, expiry the token's own exp).
LogoutBestEffort ==
  \A hdr \in UnsignedInputs \cup ExpiredAccess(now),
     body \in UnsignedInputs \cup DeadRefresh(now) :
    LET o == logout(users, refresh_tokens, token_blocklist, hdr, body, now) IN
    /\ o.status = 204
    /\ o.rt = refresh_tokens
    /\ o.bl = token_blocklist \cup
               (IF hdr \in AccessTokens /\ ~\E b \in token_blocklist : b.jti = hdr
                THEN {[jti |-> hdr, token_type |-> "access", expires_at |-> ExpOf(hdr)]}
                ELSE {})

\* an expired access token that has no entry yet, next to a revoked, an
\* expired and an unknown refresh token
ExpiredAccessNotListed ==
  /\ \E A \in ExpiredAccess(now) : ~\E b \in token_blocklist : b.jti = A
  /\ \E R \in RefreshTokens : \E row \in refresh_tokens : row.jti = R /\ row.revoked
  /\ \E R \in RefreshTokens : \A row \in refresh_tokens : row.jti # R

\* C9: check_token_blocklist(jti) is true exactly when token_blocklist holds
\* an entry with that unique-id whose expires_at is later than the time of the
\* call; the entry's expires_at is the exp of the token it was made for, so
\* an entry that is still stored at or after that instant does not block.
BlockedIffLiveEntry ==
  /\ \A jti \in Presentable, t \in 0..(MaxTime + 1) :
       check_token_blocklist(token_blocklist, jti, t)
         <=> /\ jti \in {b.jti : b \in token_blocklist}
             /\ \A b \in token_blocklist : b.jti = jti => t < b.expires_at
  /\ \A b \in token_blocklist :
       /\ b.expires_at = ExpOf(b.jti)
       /\ b.expires_at <= now => ~check_token_blocklist(token_blocklist, b.jti, now)

\* token_blocklist stores an entry past its expiry next to one that still blocks
StaleEntryStored ==
  /\ \E b \in token_blocklist : b.expires_at < now
  /\ \E b \in token_blocklist : b.expires_at > now

\* C10: after a logout-all that presented the access token A, every later
\* get_current_user on A is rejected: as long as jwt.decode still accepts A
\* it is refused as revoked, because its unique-id is blocklisted.
LogoutAllRejectsPresented ==
  \A A \in hist.allAcc :
    ~JwtExpired(A, now) =>
      LET r == get_current_user(A, users, token_blocklist, now) IN
      r.status = 401 /\ r.detail = "revoked"

\* the access tokens of the same user that were minted before a token A
\* presented to a completed logout-all (hence before that call)
EarlierAccessOf(A) ==
  {B \in AccessTokens : B[2] < A[2] /\ pairs[B[2]].uid = pairs[A[2]].uid}

LogoutAllBlocksAllAccess ==
  \A A \in hist.allAcc :
    \A B \in EarlierAccessOf(A) \cup {A} :
      now < ExpOf(B) => get_current_user(B, users, token_blocklist, now).status # 200

\* the successors of a refresh token: the pairs that refresh requests
\* presenting it have returned
SuccessorsOf(R) == {sp \in hist.succ : sp[1] = R}

\* C13: within one rotation the revocation of the presented token is
\* committed before, or in the same commit as, the row of its successor.  In
\* every state of the database, also between the commits of a refresh request
\* and after a request has died at any of them, a token that has a successor is
\* revoked; a request that has committed in block_refresh_token has left the
\* presented token revoked and mirrored, with or without a successor.
RevokeBeforeIssue ==
  /\ \A sp \in hist.succ :
       /\ \E row \in refresh_tokens : row.jti = RefreshOf(sp[2])
       /\ \A row \in refresh_tokens : row.jti = sp[1] => row.revoked
  /\ \A r \in Reqs :
       (inflight[r].op = "refresh" /\ inflight[r].pc = "blocked" /\ ~inflight[r].dirty) =>
         /\ \A row \in refresh_tokens : row.jti = inflight[r].tok => row.revoked
         /\ \E b \in token_blocklist : b.jti = inflight[r].tok

\* one rotation has been completed and another one has died between its two
\* commits: its token is revoked and has no successor
RotationDiedHalfWay ==
  /\ hist.succ # {}
  /\ \E R \in RefreshTokens :
       /\ SuccessorsOf(R) = {}
       /\ \E row \in refresh_tokens : row.jti = R /\ row.revoked
       /\ \A r \in Reqs : inflight[r] = Idle

\* C14: single use under concurrency.  However the steps of two refresh
\* requests presenting the same refresh token interleave, the token never gets
\* two successors.
AtMostOneSuccessor ==
  \A R \in RefreshTokens : Cardinality(SuccessorsOf(R)) <= 1

\* C15: revoke-all mirrors what it revokes.  For every access token with which
\* POST /auth/logout-all answers 204 in a state, every refresh-token row of
\* that user that the call flips from active to revoked has, in the blocklist
\* the call leaves behind, an entry with the row's jti and the row's expiry.
RevokeAllMirrors ==
  \A tok \in AccessTokens :
    LET r == logout_all_devices(users, refresh_tokens, token_blocklist, tok, now) IN
    r.status = 204 =>
      \A row \in refresh_tokens :
        (row.user_id = r.user /\ ~row.revoked) =>
          /\ \E q \in r.rt : q.jti = row.jti /\ q.revoked
          /\ \E b \in r.bl : b.jti = row.jti /\ b.expires_at = row.expires_at

\* the refresh tokens among S whose row is active in the table rt
ActiveAmong(S, rt) == {j \in S : \E row \in rt : row.jti = j /\ ~row.revoked}

\* C16: revoke-all is all-or-nothing.  Whatever a logout-all request does after
\* its UPDATE (it commits, or it dies and its session is rolled back), the step
\* leaves the rows that the UPDATE matched and that were still active either
\* all revoked or all as they were: no step of the request revokes only some.
RevokeAllAtomic ==
  [][\A r \in Reqs :
       (inflight[r].op = "logout_all" /\ inflight[r].pc = "updated"
          /\ inflight'[r] # inflight[r]) =>
         LET before == ActiveAmong(inflight[r].seen, refresh_tokens)
             after  == ActiveAmong(inflight[r].seen, refresh_tokens')
         IN after = before \/ after = {}]_vars

\* a logout-all whose UPDATE had matched two sessions died before its commit
\* and left both of them active
RevokeAllInterrupted ==
  /\ Cardinality(hist.died) >= 2
  /\ ActiveAmong(hist.died, refresh_tokens) = hist.died
  /\ \A r \in Reqs : inflight[r] = Idle

\* C18: validation fails closed.  For every input and in every state, when the
\* blocklist query or the user query of get_current_user raises, the request
\* is answered 401 and no identity is yielded.
FailClosedValidation ==
  \A tok \in Presentable, fault \in DbFaults \ {"none"} :
    LET r == get_current_user_with(tok, users, token_blocklist, now, fault) IN
    r.status = 401 /\ r.user = NoUser

\* one access token is accepted while the database answers, another one is
\* refused as revoked: both are refused when either query raises
ValidationWithoutDatabase ==
  /\ \E A \in AccessTokens : get_current_user(A, users, token_blocklist, now).status = 200
  /\ \E B \in AccessTokens :
       /\ get_current_user(B, users, token_blocklist, now).detail = "revoked"
       /\ \A fault \in DbFaults \ {"none"} :
            get_current_user_with(B, users, token_blocklist, now, fault).status = 401

\* C19: validation failures look alike.  In every state, any two tokens that
\* get_current_user refuses are refused with the same status, 401, and the
\* same detail, and any two tokens that verify_refresh_token refuses are
\* refused with the same detail.
ValidationFailuresAlike ==
  \A T1 \in Issued \cup Garbage, T2 \in Issued \cup Garbage :
    LET r1 == get_current_user(T1, users, token_blocklist, now)
        r2 == get_current_user(T2, users, token_blocklist, now)
        v1 == verify_refresh_token(T1, users, refresh_tokens, now)
        v2 == verify_refresh_token(T2, users, refresh_tokens, now) IN
    /\ (r1.status # 200 /\ r2.status # 200) =>
          (r1.status = 401 /\ r1.status = r2.status /\ r1.detail = r2.detail)
    /\ (~v1.ok /\ ~v2.ok) => v1.detail = v2.detail

\* C20: the checks of access-token validation run in the order signature,
\* type, expiry, blocklist, subject.  In every state every token is refused by
\* the first check of that order that it fails (a signed refresh token as
\* wrong-type even when it has expired, a blocklisted token as revoked even
\* when its subject is unknown), and a token refused as malformed, wrong-type
\* or expired is refused without a query.
ChecksInStatedOrder ==
  \A tok \in Issued \cup Garbage :
    LET why == rejection_reason(tok, users, token_blocklist, now)
        u   == get_user_by_email(users, SubOf(tok)) IN
    /\ why = IF ~SignatureOk(tok) THEN "malformed"
             ELSE IF tok[1] # "access" THEN "wrong-type"
             ELSE IF JwtExpired(tok, now) THEN "expired"
             ELSE IF check_token_blocklist(token_blocklist, tok, now) THEN "revoked"
             ELSE IF u = NoUser THEN "unknown"
             ELSE IF ~users[u].is_active THEN "inactive"
             ELSE "none"
    /\ why \in {"malformed", "wrong-type", "expired"} =>
          queries_made(tok, users, token_blocklist, now) = {}

\* C21: block is idempotent on the jti.  In every state the blocklist holds at
\* most one entry per jti, and blocking a jti that has an entry, as an access
\* or as a refresh token, with any expiry, by the call or by the commit of a
\* request whose query had found nothing, leaves the blocklist as it is.
BlockIdempotent ==
  /\ \A b1 \in token_blocklist, b2 \in token_blocklist : b1.jti = b2.jti => b1 = b2
  /\ \A b \in token_blocklist, e \in 0..(MaxTime + RefreshTTL) :
       /\ block_access_token(token_blocklist, b.jti, e) = token_blocklist
       /\ block_refresh_token(token_blocklist, b.jti, e) = token_blocklist
       /\ block_refresh_token_commit(refresh_tokens, token_blocklist, b.jti, e, now).bl
            = token_blocklist

\* a refresh token that a logout had put into the blocklist as its bearer token
\* has been rotated since: block_refresh_token met the entry
BlockedTwice ==
  \E sp \in hist.succ : \E b \in token_blocklist :
    b.jti = sp[1] /\ b.token_type = "access"

\* C22: a live blocklist entry denies every use.  In every state a token whose
\* jti has an entry that expires later than now is refused by get_current_user,
\* refused by verify_refresh_token, and not rotated by POST /auth/refresh.
BlockedDeniedEverywhere ==
  \A tok \in Issued :
    check_token_blocklist(token_blocklist, tok, now) =>
      /\ get_current_user(tok, users, token_blocklist, now).status # 200
      /\ ~verify_refresh_token(tok, users, refresh_tokens, now).ok
      /\ refresh(users, refresh_tokens, token_blocklist, tok, Len(pairs) + 1, now).status # 200

\* C23: the request limiter.  While Redis answers, a request of a client is
\* refused (429) exactly when its minute key has reached LimitPerMinute or its
\* hour key has reached LimitPerHour; a refused request changes no key and the
\* endpoint does not run; a request let through runs the endpoint and adds
\* one to both keys of the client, and touches no key of another client.
LimiterDecision ==
  (redis_client /\ redis_up) =>
    \A ip \in IPs :
      LET r == check_rate_limit_strict(rate_limit, ip, now, redis_client /\ redis_up) IN
      /\ (r.status = 429) <=> (rate_limit[ip].minute >= LimitPerMinute
                                 \/ rate_limit[ip].hour >= LimitPerHour)
      /\ r.status = 429 => (r.rl = rate_limit /\ ~r.downstream)
      /\ r.status # 429 =>
           /\ r.downstream
           /\ r.rl[ip].minute = rate_limit[ip].minute + 1
           /\ r.rl[ip].hour = rate_limit[ip].hour + 1
           /\ \A other \in IPs \ {ip} : r.rl[other] = rate_limit[other]

\* the hour key of a client is full while its minute key is not
HourWindowFull ==
  /\ redis_client /\ redis_up
  /\ \E ip \in IPs : /\ rate_limit[ip].hour >= LimitPerHour
                       /\ rate_limit[ip].minute < LimitPerMinute
                       /\ rate_limit[ip].minute > 0

\* C24: an inactive account cannot log in.  In every state, a login with the
\* address and the right password of a user whose is_active is false is not
\* answered 200, so that it issues neither an access token nor a
\* refresh-token row.
InactiveLoginRefused ==
  \A ip \in IPs, e \in Emails :
    LET u == get_user_by_email(users, e) IN
    (u # NoUser /\ ~users[u].is_active /\ users[u].pw_ok) =>
      login(users, attempts, ip, e, TRUE, now, redis_client /\ redis_up).status # 200

\* C25: one verdict on every path.  In every state and for every token, the
\* WebSocket endpoint accepts the token exactly when get_current_user accepts
\* it, and for the same user: a refresh token and a token whose jti is
\* blocklisted are turned away by both.
WebSocketSameVerdict ==
  \A tok \in Issued \cup Garbage :
    LET r  == get_current_user(tok, users, token_blocklist, now)
        ws == websocket_endpoint(tok, users, now) IN
    /\ (ws # NoUser) <=> (r.status = 200)
    /\ ws = r.user

\* C26: the refresh-token table is well formed.  In every state no two rows
\* share a jti, every revoked row has its revoked_at set, and every row
\* expires later than it was created.
RefreshTableWellFormed ==
  /\ \A r1 \in refresh_tokens, r2 \in refresh_tokens : r1.jti = r2.jti => r1 = r2
  /\ \A r \in refresh_tokens : r.revoked => r.revoked_at # NoTime
  /\ \A r \in refresh_tokens : r.expires_at > r.created_at

\* a session has been revoked some time after it was created, next to a
\* session that is still active
RevokedNextToActive ==
  /\ \E r \in refresh_tokens : r.revoked /\ r.revoked_at > r.created_at
  /\ \E r \in refresh_tokens : ~r.revoked

\* verify_refresh_token refuses R as revoked or as expired
RefusedAsDead(R) ==
  LET v == verify_refresh_token(R, users, refresh_tokens, now) IN
  /\ ~v.ok
  /\ \/ JwtExpired(R, now)
     \/ v.detail \in {RevokedDetail, "Token has expired"}

\* C27: non-active refresh tokens stay non-active.  No step of any operation
\* (register, login, refresh, logout, logout-all, delete-me, cleanup, the
\* clock) turns the revoked flag of a row from true to false, and a refresh
\* token that verify_refresh_token refuses as revoked or expired before a step
\* is refused after it.
NonActiveTerminal ==
  [][/\ \A r \in refresh_tokens : r.revoked =>
          \A q \in refresh_tokens' : q.jti = r.jti => q.revoked
     /\ \A R \in RefreshTokens : RefusedAsDead(R) =>
          ~verify_refresh_token(R, users', refresh_tokens', now').ok]_vars

\* the row of one refresh token has been revoked and deleted by the cleanup,
\* the row of another one has expired without having been revoked
DeadRefreshTokens ==
  /\ \E R \in RefreshTokens : /\ ~\E r \in refresh_tokens : r.jti = R
                               /\ RefusedAsDead(R)
  /\ \E r \in refresh_tokens : ~r.revoked /\ r.expires_at <= now /\ RefusedAsDead(r.jti)

\* C28: token types are not interchangeable.  In every state a signed,
\* unexpired refresh token is refused with 401 by get_current_user, and a
\* signed, unexpired access token is refused by verify_refresh_token as being
\* of the wrong type, so that POST /auth/refresh answers 401 and changes
\* nothing.
TypesNotInterchangeable ==
  /\ \A R \in RefreshTokens :
       ~JwtExpired(R, now) =>
         /\ get_current_user(R, users, token_blocklist, now).status = 401
         /\ get_current_user(R, users, token_blocklist, now).user = NoUser
  /\ \A A \in AccessTokens :
       ~JwtExpired(A, now) =>
         LET v == verify_refresh_token(A, users, refresh_tokens, now)
             r == refresh(users, refresh_tokens, token_blocklist, A, Len(pairs) + 1, now) IN
         /\ ~v.ok /\ v.detail = "Invalid token type"
         /\ r.status = 401 /\ r.rt = refresh_tokens /\ r.bl = token_blocklist

\* a pair both tokens of which are good for their own use
LivePair ==
  \E p \in 1..Len(pairs) :
    /\ get_current_user(AccessOf(p), users, token_blocklist, now).status = 200
    /\ verify_refresh_token(RefreshOf(p), users, refresh_tokens, now).ok
    /\ now > 0

\* C29: the cleanup is neutral.  In every state, whatever ran before, a run
\* of cleanup_expired_tokens deletes only blocklist entries whose expiry is
\* past and only refresh-token rows that are revoked, and every token gets the
\* same answer from get_current_user and from verify_refresh_token on the
\* tables it leaves as on the tables it found.
CleanupNeutral ==
  LET c == cleanup_expired_tokens(refresh_tokens, token_blocklist, now) IN
  /\ \A b \in token_blocklist \ c.bl : b.expires_at < now
  /\ \A r \in refresh_tokens \ c.rt : r.revoked
  /\ c.bl \subseteq token_blocklist /\ c.rt \subseteq refresh_tokens
  /\ \A tok \in Issued \cup Garbage :
       /\ get_current_user(tok, users, c.bl, now)
            = get_current_user(tok, users, token_blocklist, now)
       /\ verify_refresh_token(tok, users, c.rt, now)
            = verify_refresh_token(tok, users, refresh_tokens, now)

\* the cleanup has deleted the entry of an access token that a logout-all had
\* blocklisted and the row of a refresh token that had been revoked
CleanedUp ==
  /\ \E A \in hist.allAcc : ~\E b \in token_blocklist : b.jti = A
  /\ \E R \in hist.allRef \cup hist.rotated : ~\E r \in refresh_tokens : r.jti = R

\* C30: counter updates are atomic.  Whenever no request is under way, the
\* brute-force key of every identifier reads the number of failed logins
\* recorded for it, and the minute key and the hour key of every client read
\* the number of its requests that were let through (no key has run out and
\* none has been reset).
CountersAtomic ==
  (\A r \in Reqs : inflight[r] = Idle) =>
    /\ \A id \in Idents : RedisGet(attempts, id, now) = hist.recorded[id]
    /\ \A ip \in IPs : /\ rate_limit[ip].minute = hist.allowed[ip]
                         /\ rate_limit[ip].hour = hist.allowed[ip]

\* C31: the lockout is scoped per (client address, submitted username).  A
\* login with wrong credentials from one pair leaves the count, the remaining
\* attempts and the lockout status of every other pair as they were.
LockoutScopedPerPair ==
  \A ip \in Clients, e \in Usernames, ip2 \in Clients, e2 \in Usernames :
    <<ip, e>> # <<ip2, e2>> =>
      LET r     == login(users, attempts, ip, e, FALSE, now, redis_client /\ redis_up)
          other == IdentifierOf(ip2, e2) IN
      /\ RedisGet(r.att, other, now) = RedisGet(attempts, other, now)
      /\ get_remaining_attempts(r.att, other, now, redis_client /\ redis_up)
           = get_remaining_attempts(attempts, other, now, redis_client /\ redis_up)
      /\ record_failed_login(r.att, other, now, redis_client /\ redis_up).locked
           = record_failed_login(attempts, other, now, redis_client /\ redis_up).locked

\* C32: reuse of a rotated refresh token denies that token only.  A refresh
\* that presents a token rotated earlier answers 401 and leaves both tables as
\* they are: every other refresh token is validated as before, the successor
\* and the other sessions of the user stay valid, and the blocklist does not
\* grow.
ReuseDeniesOnlyReused ==
  \A R \in hist.rotated :
    LET r == refresh(users, refresh_tokens, token_blocklist, R, Len(pairs) + 1, now) IN
    /\ r.status = 401
    /\ r.bl = token_blocklist
    /\ \A T \in RefreshTokens \ {R} :
         /\ verify_refresh_token(T, users, r.rt, now)
              = verify_refresh_token(T, users, refresh_tokens, now)
         /\ \A x \in r.rt : x.jti = T => x \in refresh_tokens
         /\ \A x \in refresh_tokens : x.jti = T => x \in r.rt

\* a rotated token is presented again while its JWT is good and two other
\* refresh tokens (its successor among them) are valid
ReusedNextToValid ==
  \E R \in hist.rotated :
    /\ ~JwtExpired(R, now)
    /\ \E x \in refresh_tokens : x.jti = R /\ x.revoked
    /\ Cardinality({T \in RefreshTokens \ {R} :
                      verify_refresh_token(T, users, refresh_tokens, now).ok}) >= 2

\* C33: a deleted account stays out.  After delete_me has completed for a
\* user, refresh refuses every refresh token that was issued to that user (this
\* formula), and a login with the address and the password the account had is
\* refused (DeletedLoginRefused).
DeletedRefreshRefused ==
  \A d \in hist.deleted : \A R \in RefreshTokens :
    pairs[R[2]].uid = d.uid =>
      refresh(users, refresh_tokens, token_blocklist, R, Len(pairs) + 1, now).status = 401

\* the second half of C33: the former address and password do not log in
DeletedLoginRefused ==
  \A d \in hist.deleted : \A ip \in IPs :
    LET user == get_user_by_email(users, d.email)
        ok   == user # NoUser /\ verify_password(d.pw, users[user].pw) IN
    login(users, attempts, ip, d.email, ok, now, redis_client /\ redis_up).status # 200

\* C34: concurrent logouts.  Logout calls that present the same tokens and are
\* interleaved at their store round trips all answer 204 (none fails because
\* another one inserted the entry first), and the blocklist holds at most one
\* entry per unique-id, exactly one for each token of a logout that has finished.
ConcurrentLogoutsNoContent ==
  /\ \A a \in hist.answered : a.status = 204
  /\ \A b1 \in token_blocklist, b2 \in token_blocklist : b1.jti = b2.jti => b1 = b2
  /\ \A a \in hist.answered :
       a.status = 204 => \E b \in token_blocklist : b.jti = a.hdr

\* C35: an access token resolves only to the user it was issued to.  Whenever
\* get_current_user accepts an access token, the user it yields is the user the
\* token was minted for, also after that user has deleted the account and the
\* address has been registered again.
AccessResolvesToOwner ==
  \A A \in AccessTokens :
    LET cu == get_current_user(A, users, token_blocklist, now) IN
    cu.status = 200 => cu.user = pairs[A[2]].uid

\* the rows of the users other than uid and what refresh makes of their
\* tokens are the same in the tables rt and rt2
OthersUntouched(uid, rt, rt2) ==
  /\ {x \in rt : x.user_id # uid} = {x \in rt2 : x.user_id # uid}
  /\ \A T \in RefreshTokens :
       pairs[T[2]].uid # uid =>
         verify_refresh_token(T, users, rt2, now) = verify_refresh_token(T, users, rt, now)

\* C36 as stated: logout_all and revoke_all for a user change only that user's
\* rows, and the revoked-count they return is the number of the user's refresh
\* tokens that were active (not revoked, not expired) before the call.
RevokeAllCountsActive ==
  /\ \A uid \in UserIds :
       LET result == revoke_all_user_tokens(refresh_tokens, token_blocklist, uid, now) IN
       /\ OthersUntouched(uid, refresh_tokens, result.rt)
       /\ result.count = Cardinality({x \in refresh_tokens : x.user_id = uid /\ is_valid(x, now)})
  /\ \A tok \in AccessTokens :
       LET r == logout_all_devices(users, refresh_tokens, token_blocklist, tok, now) IN
       r.status = 204 =>
         /\ OthersUntouched(r.user, refresh_tokens, r.rt)
         /\ r.count = Cardinality({x \in refresh_tokens : x.user_id = r.user /\ is_valid(x, now)})

\* C36, amended: logout_all and revoke_all for a user change only that user's
\* rows (every row of every other user is kept as it is and its token is
\* validated as before), and the revoked-count they return is the number of
\* the user's rows that were not revoked before the call, the expired ones
\* among them.
RevokeAllOwnRowsOnly ==
  /\ \A uid \in UserIds :
       LET result == revoke_all_user_tokens(refresh_tokens, token_blocklist, uid, now) IN
       /\ OthersUntouched(uid, refresh_tokens, result.rt)
       /\ result.count = Cardinality({x \in refresh_tokens : x.user_id = uid /\ ~x.revoked})
  /\ \A tok \in AccessTokens :
       LET r == logout_all_devices(users, refresh_tokens, token_blocklist, tok, now) IN
       r.status = 204 =>
         /\ OthersUntouched(r.user, refresh_tokens, r.rt)
         /\ r.count = Cardinality({x \in refresh_tokens : x.user_id = r.user /\ ~x.revoked})

\* a logout-all is accepted for a user who has an expired row and a valid row,
\* neither revoked, while another user has a valid row
RevokeAllNextToOtherUser ==
  \E tok \in AccessTokens :
    LET r == logout_all_devices(users, refresh_tokens, token_blocklist, tok, now) IN
    /\ r.status = 204
    /\ \E x \in refresh_tokens : x.user_id = r.user /\ is_valid(x, now)
    /\ \E x \in refresh_tokens : x.user_id = r.user /\ ~x.revoked /\ ~is_valid(x, now)
    /\ \E x \in refresh_tokens : x.user_id # r.user /\ is_valid(x, now)

\* C37: attempts made while locked out do not prolong the lockout.  One lockout
\* window after the attempt that brought the count of an identifier to
\* max_attempts, a login for the identifier is no longer answered 429,
\* whatever attempts were made for it in between.
LockoutNotProlonged ==
  \A ip \in IPs, e \in Emails, c \in BOOLEAN :
    LET id == IdentifierOf(ip, e)
        tr == hist.trigger[id] IN
    (tr # NoTime /\ now >= tr + lockout_window) =>
      login(users, attempts, ip, e, c, now, redis_client /\ redis_up).status # 429

\* the requests of a client that were let through in the last sixty seconds
RECURSIVE SumRecent(_, _)
SumRecent(rec, age) == IF age < 0 THEN 0 ELSE rec[age] + SumRecent(rec, age - 1)

\* C38: the per-minute window does not slide with traffic.  A request is
\* refused by the per-minute limit only when the client has had at least
\* LimitPerMinute requests let through within the preceding sixty seconds.
MinuteWindowFixed ==
  \A ip \in IPs :
    LET c == check_rate_limit(rate_limit, ip, LimitPerMinute, LimitPerHour, now,
                              redis_client /\ redis_up) IN
    (~c.allowed /\ rate_limit[ip].minute >= LimitPerMinute) =>
      SumRecent(hist.recent[ip], MinuteQuanta) >= LimitPerMinute

\* ------------------------------------------------- brute-force properties
\* the guard cannot ask Redis: no client, or a server that does not answer
StoreDown == ~(redis_client /\ redis_up)

CleanStreak(id) == redis_client /\ ~hist.streak[id].locked

\* C6: lockout threshold.  After fewer than MaxAttempts consecutive wrong
\* attempts the next wrong attempt (the 1st .. MaxAttempts-th) is answered
\* 401, the MaxAttempts-th of them reporting 0 remaining attempts; after
\* MaxAttempts wrong attempts the next attempt is answered 429 whether or not
\* its credentials are correct.
LockoutThreshold ==
  \A ip \in IPs, e \in Emails :
    LET id == IdentifierOf(ip, e)
        h     == hist.streak[id]
        wrong == login(users, attempts, ip, e, FALSE, now, redis_client) IN
    CleanStreak(id) =>
      /\ h.fails < MaxAttempts => wrong.status = 401
      /\ h.fails = MaxAttempts - 1 => wrong.remaining = 0
      /\ h.fails = MaxAttempts =>
           \A c \in BOOLEAN :
             login(users, attempts, ip, e, c, now, redis_client).status = 429

\* C7: lockout reset.  After k < MaxAttempts consecutive wrong attempts a
\* login with the correct password answers 200 and leaves no counter for the
\* identifier, so that the next wrong attempt is again the first of
\* MaxAttempts.
LockoutReset ==
  \A ip \in IPs, e \in Emails :
    LET id == IdentifierOf(ip, e)
        h  == hist.streak[id]
        ok == login(users, attempts, ip, e, TRUE, now, redis_client) IN
    (CleanStreak(id) /\ h.fails < MaxAttempts /\ get_user_by_email(users, e) # NoUser) =>
      /\ ok.status = 200
      /\ ok.att[id] = Absent
      /\ login(users, ok.att, ip, e, FALSE, now, redis_client).remaining
           = MaxAttempts - 1

\* C8: lockout ends.  For an identifier whose last attempt was refused as
\* locked out, once the lockout window has passed since that attempt the
\* identifier has no counter, and a login with the correct password answers
\* 200 and leaves no counter.
LockoutEnds ==
  \A ip \in IPs, e \in Emails :
    LET id == IdentifierOf(ip, e)
        h  == hist.streak[id]
        ok == login(users, attempts, ip, e, TRUE, now, redis_client) IN
    (h.locked /\ WindowOver(h, now)) =>
      /\ attempts[id] = Absent
      /\ RedisGet(attempts, id, now) = 0
      /\ get_user_by_email(users, e) # NoUser =>
           (ok.status = 200 /\ ok.att[id] = Absent)

\* a registered user's identifier was locked out and the window has passed
LockedOutWindowOver ==
  \E ip \in IPs, e \in Emails :
    /\ hist.streak[IdentifierOf(ip, e)].locked
    /\ WindowOver(hist.streak[IdentifierOf(ip, e)], now)
    /\ get_user_by_email(users, e) # NoUser

====
